---- MODULE Spec2Model ----
(***************************************************************************)
(* Model of buildCanvasSDXLInpaintGraph                                    *)
(* (features/nodes/util/graphBuilders/buildCanvasSDXLInpaintGraph.ts).     *)
(*                                                                         *)
(* The builder is a straight-line procedure.  Each of its blocks is one    *)
(* action; pc is the position in the function body.  graph holds what the  *)
(* builder itself writes into the graph document; the add* helpers, whose  *)
(* bodies live in other modules, are recorded in calls with the arguments  *)
(* the builder hands them, in the order it invokes them.                   *)
(*                                                                         *)
(* Fractions (strength, refinerStart, canvasCoherenceStrength) are kept in *)
(* hundredths, so 1 - x is written 100 - x.                                *)
(***************************************************************************)
EXTENDS Integers, Sequences, FiniteSets, TLC

VARIABLES state, canvasInitImage, canvasMaskImage,
          pc, graph, modelLoaderNodeId, calls, logs, error,
          builds, prevGraph, prevCalls

vars == <<state, canvasInitImage, canvasMaskImage,
          pc, graph, modelLoaderNodeId, calls, logs, error,
          builds, prevGraph, prevCalls>>

----------------------------------------------------------------------------
(* Bounds of the enumerated inputs *)

MaxWidth == 2
MaxHeight == 1
MaxBlur == 1
MaxSeed == 1
MaxIterations == 2
MaxBuilds == 2

----------------------------------------------------------------------------
(* Node id constants imported from ./constants *)

CANVAS_COHERENCE_DENOISE_LATENTS == "canvas_coherence_denoise_latents"
CANVAS_COHERENCE_INPAINT_CREATE_MASK == "canvas_coherence_inpaint_create_mask"
CANVAS_COHERENCE_MASK_EDGE == "canvas_coherence_mask_edge"
CANVAS_COHERENCE_NOISE == "canvas_coherence_noise"
CANVAS_COHERENCE_NOISE_INCREMENT == "canvas_coherence_noise_increment"
CANVAS_OUTPUT == "canvas_output"
INPAINT_CREATE_MASK == "inpaint_create_mask"
INPAINT_IMAGE == "inpaint_image"
INPAINT_IMAGE_RESIZE_DOWN == "inpaint_image_resize_down"
INPAINT_IMAGE_RESIZE_UP == "inpaint_image_resize_up"
ITERATE == "iterate"
LATENTS_TO_IMAGE == "latents_to_image"
MASK_BLUR == "mask_blur"
MASK_RESIZE_DOWN == "mask_resize_down"
MASK_RESIZE_UP == "mask_resize_up"
NEGATIVE_CONDITIONING == "negative_conditioning"
NOISE == "noise"
POSITIVE_CONDITIONING == "positive_conditioning"
RANDOM_INT == "rand_int"
RANGE_OF_SIZE == "range_of_size"
SDXL_CANVAS_INPAINT_GRAPH == "sdxl_canvas_inpaint_graph"
SDXL_DENOISE_LATENTS == "sdxl_denoise_latents"
SDXL_MODEL_LOADER == "sdxl_model_loader"
SDXL_REFINER_SEAMLESS == "refiner_seamless"
SEAMLESS == "seamless"

----------------------------------------------------------------------------
(* Inputs *)

\* a falsy generation.model
NULL == "null"

Models == {NULL, "sd_xl_base_1.0"}

ScaleMethods == {"none", "auto", "manual"}

CoherenceModes == {"unmasked", "mask", "edge"}

Dimensions == [width : 1..MaxWidth, height : 1..MaxHeight]

\* the two uploaded canvas images; the builder only passes them on
InitImages == {[image_name |-> "canvas_init.png"]}

MaskImages == {[image_name |-> "canvas_mask.png"]}

GenerationStates ==
    [ positivePrompt : {"positive"},
      negativePrompt : {"negative"},
      model : Models,
      cfgScale : {7},
      scheduler : {"euler"},
      steps : {30},
      iterations : 1..MaxIterations,
      seed : 0..MaxSeed,
      shouldRandomizeSeed : BOOLEAN,
      vaePrecision : {"fp32"},
      shouldUseNoiseSettings : {FALSE},
      shouldUseCpuNoise : {TRUE},
      maskBlur : 0..MaxBlur,
      maskBlurMethod : {"box"},
      canvasCoherenceMode : CoherenceModes,
      canvasCoherenceSteps : {20},
      canvasCoherenceStrength : {30},
      seamlessXAxis : BOOLEAN,
      seamlessYAxis : BOOLEAN ]

SDXLStates ==
    [ sdxlImg2ImgDenoisingStrength : {75},
      shouldUseSDXLRefiner : BOOLEAN,
      refinerStart : {80},
      shouldConcatSDXLStylePrompt : {TRUE} ]

CanvasStates ==
    [ boundingBoxDimensions : Dimensions,
      scaledBoundingBoxDimensions : Dimensions,
      boundingBoxScaleMethod : ScaleMethods ]

SystemStates ==
    [ shouldUseNSFWChecker : BOOLEAN,
      shouldUseWatermarker : BOOLEAN ]

RootState ==
    [ generation : GenerationStates,
      sdxl : SDXLStates,
      canvas : CanvasStates,
      system : SystemStates ]

----------------------------------------------------------------------------
(* Helpers of the builder *)

Min(a, b) == IF a < b THEN a ELSE b

Edge(srcNode, srcField, dstNode, dstField) ==
    [ source |-> [node_id |-> srcNode, field |-> srcField],
      destination |-> [node_id |-> dstNode, field |-> dstField] ]

\* the graph before the object literal is evaluated
NoGraph == [id |-> "", nodes |-> <<>>, edges |-> <<>>]


\* variant: 'manual' missing from the list
isUsingScaledDimensions_autoOnly(boundingBoxScaleMethod) ==
    boundingBoxScaleMethod \in {"auto"}

isUsingScaledDimensions(boundingBoxScaleMethod) ==
    boundingBoxScaleMethod \in {"auto", "manual"}

craftSDXLStylePrompt(st, shouldConcatSDXLStylePrompt) ==
    [ craftedPositiveStylePrompt |->
        <<"craftedPositiveStylePrompt", shouldConcatSDXLStylePrompt>>,
      craftedNegativeStylePrompt |->
        <<"craftedNegativeStylePrompt", shouldConcatSDXLStylePrompt>> ]

----------------------------------------------------------------------------
(* The graph object literal, lines 116-440 *)

InitialNodes(st, initImage, loaderId) ==
    LET gen == st.generation
        sdxl == st.sdxl
        strength == sdxl.sdxlImg2ImgDenoisingStrength
        fp32 == (gen.vaePrecision = "fp32")
        is_intermediate == TRUE
        use_cpu == IF gen.shouldUseNoiseSettings
                   THEN gen.shouldUseCpuNoise
                   ELSE gen.shouldUseCpuNoise
        crafted == craftSDXLStylePrompt(st, sdxl.shouldConcatSDXLStylePrompt)
    IN
    (loaderId :>
        [ type |-> "sdxl_model_loader", id |-> loaderId, model |-> gen.model ])
    @@ (POSITIVE_CONDITIONING :>
        [ type |-> "sdxl_compel_prompt", id |-> POSITIVE_CONDITIONING,
          prompt |-> gen.positivePrompt,
          style |-> crafted.craftedPositiveStylePrompt ])
    @@ (NEGATIVE_CONDITIONING :>
        [ type |-> "sdxl_compel_prompt", id |-> NEGATIVE_CONDITIONING,
          prompt |-> gen.negativePrompt,
          style |-> crafted.craftedNegativeStylePrompt ])
    @@ (MASK_BLUR :>
        [ type |-> "img_blur", id |-> MASK_BLUR,
          is_intermediate |-> is_intermediate,
          radius |-> gen.maskBlur, blur_type |-> gen.maskBlurMethod ])
    @@ (INPAINT_IMAGE :>
        [ type |-> "i2l", id |-> INPAINT_IMAGE,
          is_intermediate |-> is_intermediate, fp32 |-> fp32 ])
    @@ (NOISE :>
        [ type |-> "noise", id |-> NOISE,
          use_cpu |-> use_cpu, is_intermediate |-> is_intermediate ])
    @@ (INPAINT_CREATE_MASK :>
        [ type |-> "create_denoise_mask", id |-> INPAINT_CREATE_MASK,
          is_intermediate |-> is_intermediate, fp32 |-> fp32 ])
    @@ (SDXL_DENOISE_LATENTS :>
        [ type |-> "denoise_latents", id |-> SDXL_DENOISE_LATENTS,
          is_intermediate |-> is_intermediate,
          steps |-> gen.steps, cfg_scale |-> gen.cfgScale,
          scheduler |-> gen.scheduler,
          denoising_start |->
              IF sdxl.shouldUseSDXLRefiner
              THEN Min(sdxl.refinerStart, 100 - strength)
              ELSE 100 - strength,
          denoising_end |->
              IF sdxl.shouldUseSDXLRefiner THEN sdxl.refinerStart ELSE 100 ])
    @@ (CANVAS_COHERENCE_NOISE :>
        [ type |-> "noise", id |-> NOISE,
          use_cpu |-> use_cpu, is_intermediate |-> is_intermediate ])
    @@ (CANVAS_COHERENCE_NOISE_INCREMENT :>
        [ type |-> "add", id |-> CANVAS_COHERENCE_NOISE_INCREMENT,
          b |-> 1, is_intermediate |-> is_intermediate ])
    @@ (CANVAS_COHERENCE_DENOISE_LATENTS :>
        [ type |-> "denoise_latents", id |-> CANVAS_COHERENCE_DENOISE_LATENTS,
          is_intermediate |-> is_intermediate,
          steps |-> gen.canvasCoherenceSteps, cfg_scale |-> gen.cfgScale,
          scheduler |-> gen.scheduler,
          denoising_start |-> 100 - gen.canvasCoherenceStrength,
          denoising_end |-> 100 ])
    @@ (LATENTS_TO_IMAGE :>
        [ type |-> "l2i", id |-> LATENTS_TO_IMAGE,
          is_intermediate |-> is_intermediate, fp32 |-> fp32 ])
    @@ (CANVAS_OUTPUT :>
        [ type |-> "color_correct", id |-> CANVAS_OUTPUT,
          is_intermediate |-> is_intermediate, reference |-> initImage ])
    @@ (RANGE_OF_SIZE :>
        [ type |-> "range_of_size", id |-> RANGE_OF_SIZE,
          is_intermediate |-> is_intermediate,
          size |-> gen.iterations, step |-> 1 ])
    @@ (ITERATE :>
        [ type |-> "iterate", id |-> ITERATE,
          is_intermediate |-> is_intermediate ])

InitialEdges(loaderId) ==
    << \* Connect Model Loader to UNet and CLIP
       Edge(loaderId, "unet", SDXL_DENOISE_LATENTS, "unet"),
       Edge(loaderId, "clip", POSITIVE_CONDITIONING, "clip"),
       Edge(loaderId, "clip2", POSITIVE_CONDITIONING, "clip2"),
       Edge(loaderId, "clip", NEGATIVE_CONDITIONING, "clip"),
       Edge(loaderId, "clip2", NEGATIVE_CONDITIONING, "clip2"),
       \* Connect everything to Inpaint
       Edge(POSITIVE_CONDITIONING, "conditioning",
            SDXL_DENOISE_LATENTS, "positive_conditioning"),
       Edge(NEGATIVE_CONDITIONING, "conditioning",
            SDXL_DENOISE_LATENTS, "negative_conditioning"),
       Edge(NOISE, "noise", SDXL_DENOISE_LATENTS, "noise"),
       Edge(INPAINT_IMAGE, "latents", SDXL_DENOISE_LATENTS, "latents"),
       \* Create Inpaint Mask
       Edge(MASK_BLUR, "image", INPAINT_CREATE_MASK, "mask"),
       Edge(INPAINT_CREATE_MASK, "denoise_mask",
            SDXL_DENOISE_LATENTS, "denoise_mask"),
       \* Iterate
       Edge(RANGE_OF_SIZE, "collection", ITERATE, "collection"),
       Edge(ITERATE, "item", NOISE, "seed"),
       \* Canvas Refine
       Edge(ITERATE, "item", CANVAS_COHERENCE_NOISE_INCREMENT, "a"),
       Edge(CANVAS_COHERENCE_NOISE_INCREMENT, "value",
            CANVAS_COHERENCE_NOISE, "seed"),
       Edge(loaderId, "unet", CANVAS_COHERENCE_DENOISE_LATENTS, "unet"),
       Edge(POSITIVE_CONDITIONING, "conditioning",
            CANVAS_COHERENCE_DENOISE_LATENTS, "positive_conditioning"),
       Edge(NEGATIVE_CONDITIONING, "conditioning",
            CANVAS_COHERENCE_DENOISE_LATENTS, "negative_conditioning"),
       Edge(CANVAS_COHERENCE_NOISE, "noise",
            CANVAS_COHERENCE_DENOISE_LATENTS, "noise"),
       Edge(SDXL_DENOISE_LATENTS, "latents",
            CANVAS_COHERENCE_DENOISE_LATENTS, "latents"),
       \* Decode Inpainted Latents To Image
       Edge(CANVAS_COHERENCE_DENOISE_LATENTS, "latents",
            LATENTS_TO_IMAGE, "latents") >>


\* variant: the literal hoisted out of the function and shared between calls
NewGraph_shared(old, st, initImage, loaderId) ==
    IF old = NoGraph
    THEN [ id |-> SDXL_CANVAS_INPAINT_GRAPH,
           nodes |-> InitialNodes(st, initImage, loaderId),
           edges |-> InitialEdges(loaderId) ]
    ELSE old

\* const graph = { id, nodes, edges }: a new object on every call
NewGraph(old, st, initImage, loaderId) ==
    [ id |-> SDXL_CANVAS_INPAINT_GRAPH,
      nodes |-> InitialNodes(st, initImage, loaderId),
      edges |-> InitialEdges(loaderId) ]

\* graph.nodes[key] = node
SetNode(g, key, node) ==
    [g EXCEPT !.nodes = (key :> node) @@ g.nodes]

\* (graph.nodes[key] as T).field = value, and { ...graph.nodes[key], field: value }
SetField(g, key, field, value) ==
    [g EXCEPT !.nodes = (key :> ((field :> value) @@ g.nodes[key])) @@ g.nodes]

\* graph.edges.push(e1, ..., en)
PushEdges(g, es) ==
    [g EXCEPT !.edges = g.edges \o es]

----------------------------------------------------------------------------
(* Handle Scale Before Processing, lines 442-604 *)


\* variant: the blurred mask is wired to MASK_RESIZE_UP instead of MASK_RESIZE_DOWN
ScaledEdges_upForDown ==
    << Edge(INPAINT_IMAGE_RESIZE_UP, "image", INPAINT_IMAGE, "image"),
       Edge(MASK_RESIZE_UP, "image", MASK_BLUR, "image"),
       Edge(INPAINT_IMAGE_RESIZE_UP, "image", INPAINT_CREATE_MASK, "image"),
       Edge(LATENTS_TO_IMAGE, "image", INPAINT_IMAGE_RESIZE_DOWN, "image"),
       Edge(INPAINT_IMAGE_RESIZE_DOWN, "image", CANVAS_OUTPUT, "image"),
       Edge(MASK_BLUR, "image", MASK_RESIZE_UP, "image"),
       Edge(MASK_RESIZE_DOWN, "image", CANVAS_OUTPUT, "mask") >>

ScaledEdges ==
    << \* Scale Inpaint Image and Mask
       Edge(INPAINT_IMAGE_RESIZE_UP, "image", INPAINT_IMAGE, "image"),
       Edge(MASK_RESIZE_UP, "image", MASK_BLUR, "image"),
       Edge(INPAINT_IMAGE_RESIZE_UP, "image", INPAINT_CREATE_MASK, "image"),
       \* Color Correct The Inpainted Result
       Edge(LATENTS_TO_IMAGE, "image", INPAINT_IMAGE_RESIZE_DOWN, "image"),
       Edge(INPAINT_IMAGE_RESIZE_DOWN, "image", CANVAS_OUTPUT, "image"),
       Edge(MASK_BLUR, "image", MASK_RESIZE_DOWN, "image"),
       Edge(MASK_RESIZE_DOWN, "image", CANVAS_OUTPUT, "mask") >>

UnscaledEdges ==
    << \* Color Correct The Inpainted Result
       Edge(LATENTS_TO_IMAGE, "image", CANVAS_OUTPUT, "image"),
       Edge(MASK_BLUR, "image", CANVAS_OUTPUT, "mask") >>

ResizeNode(id, w, h) ==
    [ type |-> "img_resize", id |-> id, is_intermediate |-> TRUE,
      width |-> w, height |-> h ]

\* the four (graph.nodes[...] as NoiseInvocation) assignments
SetNoiseDimensions(g, w, h) ==
    SetField(SetField(SetField(SetField(g,
        NOISE, "width", w),
        NOISE, "height", h),
        CANVAS_COHERENCE_NOISE, "width", w),
        CANVAS_COHERENCE_NOISE, "height", h)

ScaleBeforeProcessing(g, st, initImage, maskImage) ==
    LET width == st.canvas.boundingBoxDimensions.width
        height == st.canvas.boundingBoxDimensions.height
        scaledWidth == st.canvas.scaledBoundingBoxDimensions.width
        scaledHeight == st.canvas.scaledBoundingBoxDimensions.height
    IN
    IF isUsingScaledDimensions(st.canvas.boundingBoxScaleMethod)
    THEN LET g1 == SetNode(g, INPAINT_IMAGE_RESIZE_UP,
                     ("image" :> initImage) @@
                     ResizeNode(INPAINT_IMAGE_RESIZE_UP, scaledWidth, scaledHeight))
             g2 == SetNode(g1, MASK_RESIZE_UP,
                     ("image" :> maskImage) @@
                     ResizeNode(MASK_RESIZE_UP, scaledWidth, scaledHeight))
             g3 == SetNode(g2, INPAINT_IMAGE_RESIZE_DOWN,
                     ResizeNode(INPAINT_IMAGE_RESIZE_DOWN, width, height))
             g4 == SetNode(g3, MASK_RESIZE_DOWN,
                     ResizeNode(MASK_RESIZE_DOWN, width, height))
             g5 == SetNoiseDimensions(g4, scaledWidth, scaledHeight)
         IN  PushEdges(g5, ScaledEdges)
    ELSE LET g1 == SetNoiseDimensions(g, width, height)
             g2 == SetField(g1, INPAINT_IMAGE, "image", initImage)
             g3 == SetField(g2, MASK_BLUR, "image", maskImage)
             g4 == SetField(g3, INPAINT_CREATE_MASK, "image", initImage)
         IN  PushEdges(g4, UnscaledEdges)

----------------------------------------------------------------------------
(* Handle Coherence Mode, lines 606-714 *)


\* variant: edge_size not doubled
MaskEdgeNode_sizeNotDoubled(maskBlur) ==
    [ type |-> "mask_edge", id |-> CANVAS_COHERENCE_MASK_EDGE,
      is_intermediate |-> TRUE,
      edge_blur |-> maskBlur, edge_size |-> maskBlur,
      low_threshold |-> 100, high_threshold |-> 200 ]

MaskEdgeNode(maskBlur) ==
    [ type |-> "mask_edge", id |-> CANVAS_COHERENCE_MASK_EDGE,
      is_intermediate |-> TRUE,
      edge_blur |-> maskBlur, edge_size |-> maskBlur * 2,
      low_threshold |-> 100, high_threshold |-> 200 ]

\* Handle Image Input For Mask Creation, lines 616-635
CoherenceImageInput(g, scaled, initImage) ==
    IF scaled
    THEN PushEdges(g, << Edge(INPAINT_IMAGE_RESIZE_UP, "image",
                              CANVAS_COHERENCE_INPAINT_CREATE_MASK, "image") >>)
    ELSE SetField(g, CANVAS_COHERENCE_INPAINT_CREATE_MASK, "image", initImage)


\* variant: the test is written mode !== 'unmasked' instead of mode === 'mask'
CoherenceMaskInput_notUnmasked(g, mode, scaled, maskImage) ==
    IF mode # "unmasked"
    THEN IF scaled
         THEN PushEdges(g, << Edge(MASK_RESIZE_UP, "image",
                                   CANVAS_COHERENCE_INPAINT_CREATE_MASK, "mask") >>)
         ELSE SetField(g, CANVAS_COHERENCE_INPAINT_CREATE_MASK, "mask", maskImage)
    ELSE g

\* variant: the mask edge is pushed without looking at isUsingScaledDimensions
CoherenceMaskInput_alwaysEdge(g, mode, scaled, maskImage) ==
    IF mode = "mask"
    THEN PushEdges(g, << Edge(MASK_RESIZE_UP, "image",
                              CANVAS_COHERENCE_INPAINT_CREATE_MASK, "mask") >>)
    ELSE g

\* Create Mask If Coherence Mode Is Mask, lines 637-658
CoherenceMaskInput(g, mode, scaled, maskImage) ==
    IF mode = "mask"
    THEN IF scaled
         THEN PushEdges(g, << Edge(MASK_RESIZE_UP, "image",
                                   CANVAS_COHERENCE_INPAINT_CREATE_MASK, "mask") >>)
         ELSE SetField(g, CANVAS_COHERENCE_INPAINT_CREATE_MASK, "mask", maskImage)
    ELSE g

\* Create Mask Edge If Coherence Mode Is Edge, lines 660-701
CoherenceMaskEdge(g, mode, scaled, maskBlur, maskImage) ==
    IF mode = "edge"
    THEN LET g1 == SetNode(g, CANVAS_COHERENCE_MASK_EDGE, MaskEdgeNode(maskBlur))
             g2 == IF scaled
                   THEN PushEdges(g1, << Edge(MASK_RESIZE_UP, "image",
                                              CANVAS_COHERENCE_MASK_EDGE, "image") >>)
                   ELSE SetField(g1, CANVAS_COHERENCE_MASK_EDGE, "image", maskImage)
         IN  PushEdges(g2, << Edge(CANVAS_COHERENCE_MASK_EDGE, "image",
                                   CANVAS_COHERENCE_INPAINT_CREATE_MASK, "mask") >>)
    ELSE g

\* Plug Denoise Mask To Coherence Denoise Latents, lines 703-713
CoherenceDenoiseMaskEdge ==
    Edge(CANVAS_COHERENCE_INPAINT_CREATE_MASK, "denoise_mask",
         CANVAS_COHERENCE_DENOISE_LATENTS, "denoise_mask")

CoherenceMode(g, st, initImage, maskImage) ==
    LET mode == st.generation.canvasCoherenceMode
        scaled == isUsingScaledDimensions(st.canvas.boundingBoxScaleMethod)
        fp32 == (st.generation.vaePrecision = "fp32")
    IN
    IF mode # "unmasked"
    THEN LET g1 == SetNode(g, CANVAS_COHERENCE_INPAINT_CREATE_MASK,
                     [ type |-> "create_denoise_mask",
                       id |-> CANVAS_COHERENCE_INPAINT_CREATE_MASK,
                       is_intermediate |-> TRUE, fp32 |-> fp32 ])
             g2 == CoherenceImageInput(g1, scaled, initImage)
             g3 == CoherenceMaskInput(g2, mode, scaled, maskImage)
             g4 == CoherenceMaskEdge(g3, mode, scaled,
                                     st.generation.maskBlur, maskImage)
         IN  PushEdges(g4, << CoherenceDenoiseMaskEdge >>)
    ELSE g

----------------------------------------------------------------------------
(* Handle Seed, lines 716-734 *)

\* variant: the literal start is written even when the seed is randomized
HandleSeedGraph_alwaysLiteral(g, shouldRandomizeSeed, seed) ==
    LET g1 == SetField(g, RANGE_OF_SIZE, "start", seed)
    IN  IF shouldRandomizeSeed
        THEN PushEdges(SetNode(g1, RANDOM_INT,
                               [id |-> RANDOM_INT, type |-> "rand_int"]),
                       << Edge(RANDOM_INT, "value", RANGE_OF_SIZE, "start") >>)
        ELSE g1

HandleSeedGraph(g, shouldRandomizeSeed, seed) ==
    IF shouldRandomizeSeed
    THEN PushEdges(SetNode(g, RANDOM_INT, [id |-> RANDOM_INT, type |-> "rand_int"]),
                   << Edge(RANDOM_INT, "value", RANGE_OF_SIZE, "start") >>)
    ELSE SetField(g, RANGE_OF_SIZE, "start", seed)

----------------------------------------------------------------------------
(* Optional stages, lines 736-776 *)

\* an invocation of one of the imported add* helpers on (state, graph, ...args)
Call(fn, args) == [fn |-> fn, args |-> args]


\* variant: the guard is dropped
modelMissing_never(model) == FALSE

modelMissing(model) == model = NULL


\* variant: || written as &&
shouldAddSeamless_both(gen) == gen.seamlessXAxis /\ gen.seamlessYAxis

shouldAddSeamless(gen) == gen.seamlessXAxis \/ gen.seamlessYAxis

shouldAddRefiner(sdxl) == sdxl.shouldUseSDXLRefiner

shouldAddNSFWChecker(sys) == sys.shouldUseNSFWChecker

shouldAddWatermarker(sys) == sys.shouldUseWatermarker


\* variant: the watermarker block placed before the NSFW block
Successor_watermarkFirst(p) ==
    CASE p = "construct"  -> "scale"
      [] p = "scale"      -> "coherence"
      [] p = "coherence"  -> "seed"
      [] p = "seed"       -> "seamless"
      [] p = "seamless"   -> "refiner"
      [] p = "refiner"    -> "vae"
      [] p = "vae"        -> "lora"
      [] p = "lora"       -> "controlnet"
      [] p = "controlnet" -> "watermark"
      [] p = "watermark"  -> "nsfw"
      [] p = "nsfw"       -> "save"
      [] p = "save"       -> "return"
      [] p = "return"     -> "done"

\* the order of the statements of the function body
Successor(p) ==
    CASE p = "construct"  -> "scale"
      [] p = "scale"      -> "coherence"
      [] p = "coherence"  -> "seed"
      [] p = "seed"       -> "seamless"
      [] p = "seamless"   -> "refiner"
      [] p = "refiner"    -> "vae"
      [] p = "vae"        -> "lora"
      [] p = "lora"       -> "controlnet"
      [] p = "controlnet" -> "nsfw"
      [] p = "nsfw"       -> "watermark"
      [] p = "watermark"  -> "save"
      [] p = "save"       -> "return"
      [] p = "return"     -> "done"

----------------------------------------------------------------------------
(* State machine *)

Init ==
    /\ state \in RootState
    /\ canvasInitImage \in InitImages
    /\ canvasMaskImage \in MaskImages
    /\ pc = "start"
    /\ graph = NoGraph
    /\ modelLoaderNodeId = NULL
    /\ calls = <<>>
    /\ logs = <<>>
    /\ error = NULL
    /\ builds = 1
    /\ prevGraph = NoGraph
    /\ prevCalls = <<>>

\* lines 59-92: destructuring and the model guard
Guard ==
    /\ pc = "start"
    /\ IF modelMissing(state.generation.model)
       THEN /\ logs' = Append(logs, [level |-> "error",
                                     msg |-> "No model found in state"])
            /\ error' = "No model found in state"
            /\ pc' = "threw"
       ELSE /\ pc' = "construct"
            /\ UNCHANGED <<logs, error>>
    /\ UNCHANGED <<state, canvasInitImage, canvasMaskImage, graph,
                   modelLoaderNodeId, calls, builds, prevGraph, prevCalls>>

\* lines 94-440: locals and the graph literal
ConstructGraph ==
    /\ pc = "construct"
    /\ modelLoaderNodeId' = SDXL_MODEL_LOADER
    /\ graph' = NewGraph(graph, state, canvasInitImage, modelLoaderNodeId')
    /\ pc' = Successor(pc)
    /\ UNCHANGED <<state, canvasInitImage, canvasMaskImage, calls, logs,
                   error, builds, prevGraph, prevCalls>>

\* lines 442-604
HandleScale ==
    /\ pc = "scale"
    /\ graph' = ScaleBeforeProcessing(graph, state, canvasInitImage,
                                      canvasMaskImage)
    /\ pc' = Successor(pc)
    /\ UNCHANGED <<state, canvasInitImage, canvasMaskImage, modelLoaderNodeId,
                   calls, logs, error, builds, prevGraph, prevCalls>>

\* lines 606-714
HandleCoherence ==
    /\ pc = "coherence"
    /\ graph' = CoherenceMode(graph, state, canvasInitImage, canvasMaskImage)
    /\ pc' = Successor(pc)
    /\ UNCHANGED <<state, canvasInitImage, canvasMaskImage, modelLoaderNodeId,
                   calls, logs, error, builds, prevGraph, prevCalls>>

\* lines 716-734
HandleSeed ==
    /\ pc = "seed"
    /\ graph' = HandleSeedGraph(graph, state.generation.shouldRandomizeSeed,
                                state.generation.seed)
    /\ pc' = Successor(pc)
    /\ UNCHANGED <<state, canvasInitImage, canvasMaskImage, modelLoaderNodeId,
                   calls, logs, error, builds, prevGraph, prevCalls>>

\* lines 736-740
AddSeamless ==
    /\ pc = "seamless"
    /\ IF shouldAddSeamless(state.generation)
       THEN /\ calls' = Append(calls, Call("addSeamlessToLinearGraph",
                                           <<modelLoaderNodeId>>))
            /\ modelLoaderNodeId' = SEAMLESS
       ELSE UNCHANGED <<calls, modelLoaderNodeId>>
    /\ pc' = Successor(pc)
    /\ UNCHANGED <<state, canvasInitImage, canvasMaskImage, graph, logs,
                   error, builds, prevGraph, prevCalls>>

\* lines 742-754
AddRefiner ==
    /\ pc = "refiner"
    /\ IF shouldAddRefiner(state.sdxl)
       THEN /\ calls' = Append(calls, Call("addSDXLRefinerToGraph",
                                  <<CANVAS_COHERENCE_DENOISE_LATENTS,
                                    modelLoaderNodeId, canvasInitImage>>))
            /\ modelLoaderNodeId' =
                  IF state.generation.seamlessXAxis
                       \/ state.generation.seamlessYAxis
                  THEN SDXL_REFINER_SEAMLESS
                  ELSE modelLoaderNodeId
       ELSE UNCHANGED <<calls, modelLoaderNodeId>>
    /\ pc' = Successor(pc)
    /\ UNCHANGED <<state, canvasInitImage, canvasMaskImage, graph, logs,
                   error, builds, prevGraph, prevCalls>>

\* line 757
AddVAE ==
    /\ pc = "vae"
    /\ calls' = Append(calls, Call("addVAEToGraph", <<modelLoaderNodeId>>))
    /\ pc' = Successor(pc)
    /\ UNCHANGED <<state, canvasInitImage, canvasMaskImage, graph,
                   modelLoaderNodeId, logs, error, builds, prevGraph, prevCalls>>

\* line 760
AddLoRAs ==
    /\ pc = "lora"
    /\ calls' = Append(calls, Call("addSDXLLoRAsToGraph",
                                   <<SDXL_DENOISE_LATENTS, modelLoaderNodeId>>))
    /\ pc' = Successor(pc)
    /\ UNCHANGED <<state, canvasInitImage, canvasMaskImage, graph,
                   modelLoaderNodeId, logs, error, builds, prevGraph, prevCalls>>

\* line 763
AddControlNet ==
    /\ pc = "controlnet"
    /\ calls' = Append(calls, Call("addControlNetToLinearGraph",
                                   <<SDXL_DENOISE_LATENTS>>))
    /\ pc' = Successor(pc)
    /\ UNCHANGED <<state, canvasInitImage, canvasMaskImage, graph,
                   modelLoaderNodeId, logs, error, builds, prevGraph, prevCalls>>

\* lines 765-769
AddNSFWChecker ==
    /\ pc = "nsfw"
    /\ IF shouldAddNSFWChecker(state.system)
       THEN calls' = Append(calls, Call("addNSFWCheckerToGraph",
                                        <<CANVAS_OUTPUT>>))
       ELSE UNCHANGED calls
    /\ pc' = Successor(pc)
    /\ UNCHANGED <<state, canvasInitImage, canvasMaskImage, graph,
                   modelLoaderNodeId, logs, error, builds, prevGraph, prevCalls>>

\* lines 771-774
AddWatermarker ==
    /\ pc = "watermark"
    /\ IF shouldAddWatermarker(state.system)
       THEN calls' = Append(calls, Call("addWatermarkerToGraph",
                                        <<CANVAS_OUTPUT>>))
       ELSE UNCHANGED calls
    /\ pc' = Successor(pc)
    /\ UNCHANGED <<state, canvasInitImage, canvasMaskImage, graph,
                   modelLoaderNodeId, logs, error, builds, prevGraph, prevCalls>>

\* line 776
AddSaveImage ==
    /\ pc = "save"
    /\ calls' = Append(calls, Call("addSaveImageNode", <<>>))
    /\ pc' = Successor(pc)
    /\ UNCHANGED <<state, canvasInitImage, canvasMaskImage, graph,
                   modelLoaderNodeId, logs, error, builds, prevGraph, prevCalls>>

\* line 778
Return ==
    /\ pc = "return"
    /\ pc' = Successor(pc)
    /\ UNCHANGED <<state, canvasInitImage, canvasMaskImage, graph,
                   modelLoaderNodeId, calls, logs, error, builds, prevGraph,
                   prevCalls>>

Next ==
    \/ Guard
    \/ ConstructGraph
    \/ HandleScale
    \/ HandleCoherence
    \/ HandleSeed
    \/ AddSeamless
    \/ AddRefiner
    \/ AddVAE
    \/ AddLoRAs
    \/ AddControlNet
    \/ AddNSFWChecker
    \/ AddWatermarker
    \/ AddSaveImage
    \/ Return

Spec == Init /\ [][Next]_vars

----------------------------------------------------------------------------
(* A caller that builds again from the same inputs *)

\* The caller keeps the returned graph and calls the builder again with the
\* same arguments.  The new activation assigns modelLoaderNodeId (line 106)
\* and graph (line 116) before it reads them.
Rebuild ==
    /\ pc = "done"
    /\ builds < MaxBuilds
    /\ builds' = builds + 1
    /\ prevGraph' = graph
    /\ prevCalls' = calls
    /\ calls' = <<>>
    /\ pc' = "start"
    /\ UNCHANGED <<state, canvasInitImage, canvasMaskImage, graph,
                   modelLoaderNodeId, logs, error>>

NextRebuild ==
    \/ Guard
    \/ ConstructGraph
    \/ HandleScale
    \/ HandleCoherence
    \/ HandleSeed
    \/ AddSeamless
    \/ AddRefiner
    \/ AddVAE
    \/ AddLoRAs
    \/ AddControlNet
    \/ AddNSFWChecker
    \/ AddWatermarker
    \/ AddSaveImage
    \/ Return
    \/ Rebuild

SpecRebuild == Init /\ [][NextRebuild]_vars

----------------------------------------------------------------------------
(* Vocabulary of the properties *)

gen == state.generation

scaledInput == state.canvas.boundingBoxScaleMethod \in {"auto", "manual"}

coherenceInput == state.generation.canvasCoherenceMode

Keys == DOMAIN graph.nodes

EdgeSet == {graph.edges[i] : i \in 1..Len(graph.edges)}

Ref(node, field) == [node_id |-> node, field |-> field]

\* the outputs wired into input `field` of `node`
Sources(node, field) ==
    {e.source : e \in {x \in EdgeSet : x.destination = Ref(node, field)}}

Touches(e, node) == e.source.node_id = node \/ e.destination.node_id = node

ResizeKeys ==
    {INPAINT_IMAGE_RESIZE_UP, MASK_RESIZE_UP,
     INPAINT_IMAGE_RESIZE_DOWN, MASK_RESIZE_DOWN}

CallIndices(fn) == {i \in 1..Len(calls) : calls[i].fn = fn}

Count(fn) == Cardinality(CallIndices(fn))

Ran(fn) == CallIndices(fn) # {}

\* positions of the function body after the given block
AfterConstruct == pc \notin {"start", "threw", "construct"}

AfterScale == AfterConstruct /\ pc # "scale"

AfterCoherence == AfterScale /\ pc # "coherence"

AfterSeed == AfterCoherence /\ pc # "seed"

\* nodes left after repeatedly removing those without an incoming edge
RECURSIVE Peel(_, _)
Peel(ns, rel) ==
    LET roots == {n \in ns : ~ \E r \in rel : r[2] = n /\ r[1] \in ns}
    IN  IF roots = {} THEN ns ELSE Peel(ns \ roots, rel)

EdgeRel == {<<e.source.node_id, e.destination.node_id>> : e \in EdgeSet}

EdgeNodes == {r[1] : r \in EdgeRel} \cup {r[2] : r \in EdgeRel}

----------------------------------------------------------------------------
(* Properties *)

\* C1: without a model the builder throws 'No model found in state' and
\* assembles nothing and invokes no helper; with a model it never throws.
C1_ModelGuard ==
    /\ (gen.model = NULL /\ pc # "start") =>
          /\ pc = "threw"
          /\ error = "No model found in state"
          /\ graph = NoGraph
          /\ calls = <<>>
    /\ gen.model # NULL => (pc # "threw" /\ error = NULL /\ logs = <<>>)
    /\ pc = "done" => (gen.model # NULL /\ graph # NoGraph)

C1_Witness ==
    /\ pc = "threw"
    /\ gen.model = NULL
    /\ error = "No model found in state"

\* C2: no two node objects stored in graph.nodes carry the same id.
C2_NodeIdsUnique ==
    \A k1, k2 \in Keys : k1 # k2 => graph.nodes[k1].id # graph.nodes[k2].id

\* C3: the edges the builder creates form an acyclic directed graph.
C3_Acyclic == Peel(EdgeNodes, EdgeRel) = {}

C3_Witness ==
    /\ pc = "done"
    /\ scaledInput
    /\ coherenceInput = "edge"
    /\ gen.shouldRandomizeSeed
    /\ Len(graph.edges) = 33

\* C4: every edge refers at both ends to a node present in graph.nodes; the
\* edges of the optional branches exist only in the configurations that add
\* their nodes.
C4_EdgesReferToNodes ==
    \A e \in EdgeSet :
        /\ e.source.node_id \in Keys
        /\ e.destination.node_id \in Keys
        /\ (\E k \in ResizeKeys : Touches(e, k)) => scaledInput
        /\ Touches(e, CANVAS_COHERENCE_INPAINT_CREATE_MASK) =>
              coherenceInput # "unmasked"
        /\ Touches(e, CANVAS_COHERENCE_MASK_EDGE) => coherenceInput = "edge"
        /\ e.source.node_id = RANDOM_INT => gen.shouldRandomizeSeed

C4_Witness ==
    /\ pc = "done"
    /\ ~ scaledInput
    /\ coherenceInput = "mask"
    /\ ~ gen.shouldRandomizeSeed
    /\ \E e \in EdgeSet : Touches(e, CANVAS_COHERENCE_INPAINT_CREATE_MASK)

\* C5: seamless, refiner, NSFW checker and watermarker are invoked exactly
\* when their flag is set; VAE, LoRA, ControlNet and save-image exactly once
\* on every successful build; no helper more than once.
C5_StagesFollowFlags ==
    /\ \A i, j \in 1..Len(calls) : calls[i].fn = calls[j].fn => i = j
    /\ pc = "done" =>
          /\ Ran("addSeamlessToLinearGraph") <=>
                (gen.seamlessXAxis \/ gen.seamlessYAxis)
          /\ Ran("addSDXLRefinerToGraph") <=> state.sdxl.shouldUseSDXLRefiner
          /\ Ran("addNSFWCheckerToGraph") <=> state.system.shouldUseNSFWChecker
          /\ Ran("addWatermarkerToGraph") <=> state.system.shouldUseWatermarker
          /\ Count("addVAEToGraph") = 1
          /\ Count("addSDXLLoRAsToGraph") = 1
          /\ Count("addControlNetToLinearGraph") = 1
          /\ Count("addSaveImageNode") = 1

C5_Witness ==
    /\ pc = "done"
    /\ gen.seamlessXAxis /\ ~ gen.seamlessYAxis
    /\ ~ state.sdxl.shouldUseSDXLRefiner
    /\ state.system.shouldUseNSFWChecker
    /\ ~ state.system.shouldUseWatermarker
    /\ Count("addSeamlessToLinearGraph") = 1
    /\ Count("addSDXLRefinerToGraph") = 0

C7_NSFWAndWatermarkLast ==
    [][ (Ran("addNSFWCheckerToGraph") \/ Ran("addWatermarkerToGraph"))
          /\ pc \in {"save", "return"}
        => (calls' = calls /\ graph' = graph) ]_vars

\* C8: with both flags set the NSFW checker is applied before the
\* watermarker; both are attached to CANVAS_OUTPUT; both run after the
\* seamless, refiner, VAE, LoRA and ControlNet steps.
C8_NSFWBeforeWatermark ==
    LET early == {"addSeamlessToLinearGraph", "addSDXLRefinerToGraph",
                  "addVAEToGraph", "addSDXLLoRAsToGraph",
                  "addControlNetToLinearGraph"}
        late == {"addNSFWCheckerToGraph", "addWatermarkerToGraph"}
    IN
    /\ \A i \in CallIndices("addNSFWCheckerToGraph") :
       \A j \in CallIndices("addWatermarkerToGraph") : i < j
    /\ (state.system.shouldUseNSFWChecker /\ Ran("addWatermarkerToGraph"))
          => Ran("addNSFWCheckerToGraph")
    /\ \A i \in 1..Len(calls) : calls[i].fn \in late =>
          /\ calls[i].args = <<CANVAS_OUTPUT>>
          /\ \A j \in 1..Len(calls) : calls[j].fn \in early => j < i
          /\ Ran("addVAEToGraph")
          /\ Ran("addSDXLLoRAsToGraph")
          /\ Ran("addControlNetToLinearGraph")
          /\ (gen.seamlessXAxis \/ gen.seamlessYAxis)
                => Ran("addSeamlessToLinearGraph")
          /\ state.sdxl.shouldUseSDXLRefiner => Ran("addSDXLRefinerToGraph")

C8_Witness ==
    /\ pc = "done"
    /\ state.system.shouldUseNSFWChecker
    /\ state.system.shouldUseWatermarker
    /\ gen.seamlessYAxis
    /\ state.sdxl.shouldUseSDXLRefiner
    /\ Ran("addNSFWCheckerToGraph")
    /\ Ran("addWatermarkerToGraph")

\* C9: with scale method auto/manual the graph has exactly the four resize
\* nodes (UP at the scaled size, DOWN at the bounding-box size), both noise
\* nodes have the scaled size and CANVAS_OUTPUT is fed by the RESIZE_DOWN
\* nodes; otherwise no resize node exists, both noise nodes have the
\* bounding-box size and CANVAS_OUTPUT is fed by LATENTS_TO_IMAGE and
\* MASK_BLUR.  The two noise nodes always agree in width and height.
C9_ScaleBeforeProcessing ==
    AfterScale =>
    LET bb == state.canvas.boundingBoxDimensions
        sc == state.canvas.scaledBoundingBoxDimensions
        n == graph.nodes
        resizes == {k \in Keys : n[k].type = "img_resize"}
        Sized(k, d) == n[k].width = d.width /\ n[k].height = d.height
    IN
    /\ Sized(NOISE, [width |-> n[CANVAS_COHERENCE_NOISE].width,
                     height |-> n[CANVAS_COHERENCE_NOISE].height])
    /\ IF scaledInput
       THEN /\ resizes = ResizeKeys
            /\ Sized(INPAINT_IMAGE_RESIZE_UP, sc)
            /\ Sized(MASK_RESIZE_UP, sc)
            /\ Sized(INPAINT_IMAGE_RESIZE_DOWN, bb)
            /\ Sized(MASK_RESIZE_DOWN, bb)
            /\ Sized(NOISE, sc)
            /\ Sized(CANVAS_COHERENCE_NOISE, sc)
            /\ Sources(CANVAS_OUTPUT, "image") =
                  {Ref(INPAINT_IMAGE_RESIZE_DOWN, "image")}
            /\ Sources(CANVAS_OUTPUT, "mask") =
                  {Ref(MASK_RESIZE_DOWN, "image")}
       ELSE /\ resizes = {}
            /\ Keys \cap ResizeKeys = {}
            /\ Sized(NOISE, bb)
            /\ Sized(CANVAS_COHERENCE_NOISE, bb)
            /\ Sources(CANVAS_OUTPUT, "image") =
                  {Ref(LATENTS_TO_IMAGE, "image")}
            /\ Sources(CANVAS_OUTPUT, "mask") = {Ref(MASK_BLUR, "image")}

C9_Witness ==
    /\ pc = "done"
    /\ state.canvas.boundingBoxScaleMethod = "manual"
    /\ state.canvas.scaledBoundingBoxDimensions.width
          # state.canvas.boundingBoxDimensions.width
    /\ graph.nodes[NOISE].width = state.canvas.scaledBoundingBoxDimensions.width
    /\ MASK_RESIZE_DOWN \in Keys

\* C10: CANVAS_COHERENCE_DENOISE_LATENTS has a denoise_mask edge iff the
\* coherence mode is not 'unmasked', coming from the create-mask node, which
\* exists iff the mode is not 'unmasked'; the mask-edge node exists iff the
\* mode is 'edge', with edge_blur = maskBlur and edge_size = 2 * maskBlur,
\* and then feeds the create-mask node's mask; in 'mask' mode that mask is
\* the canvas mask image (literal when unscaled, edge from MASK_RESIZE_UP
\* when scaled).
C10_CoherenceWiring ==
    AfterCoherence =>
    LET n == graph.nodes
        cm == CANVAS_COHERENCE_INPAINT_CREATE_MASK
        me == CANVAS_COHERENCE_MASK_EDGE
    IN
    /\ Sources(CANVAS_COHERENCE_DENOISE_LATENTS, "denoise_mask") =
          IF coherenceInput # "unmasked"
          THEN {Ref(cm, "denoise_mask")} ELSE {}
    /\ cm \in Keys <=> coherenceInput # "unmasked"
    /\ me \in Keys <=> coherenceInput = "edge"
    /\ coherenceInput = "edge" =>
          /\ n[me].edge_blur = gen.maskBlur
          /\ n[me].edge_size = 2 * gen.maskBlur
          /\ Sources(cm, "mask") = {Ref(me, "image")}
    /\ coherenceInput = "mask" =>
          IF scaledInput
          THEN /\ Sources(cm, "mask") = {Ref(MASK_RESIZE_UP, "image")}
               /\ "mask" \notin DOMAIN n[cm]
          ELSE /\ Sources(cm, "mask") = {}
               /\ "mask" \in DOMAIN n[cm]
               /\ n[cm].mask = canvasMaskImage
    /\ coherenceInput = "unmasked" => Sources(cm, "mask") = {}

C10_Witness ==
    /\ pc = "done"
    /\ coherenceInput = "edge"
    /\ gen.maskBlur > 0
    /\ CANVAS_COHERENCE_MASK_EDGE \in Keys
    /\ graph.nodes[CANVAS_COHERENCE_MASK_EDGE].edge_size = 2 * gen.maskBlur

\* C11: the seed has exactly one source.  With shouldRandomizeSeed the graph
\* has a RANDOM_INT node whose value feeds RANGE_OF_SIZE.start and
\* RANGE_OF_SIZE has no literal start; otherwise there is no RANDOM_INT node,
\* no edge into RANGE_OF_SIZE.start, and start is state.generation.seed.
\* Always: size = iterations, step = 1, ITERATE.item feeds NOISE.seed, and
\* CANVAS_COHERENCE_NOISE.seed is ITERATE.item + 1 through
\* CANVAS_COHERENCE_NOISE_INCREMENT (b = 1).
C11_SeedSource ==
    AfterSeed =>
    LET n == graph.nodes
        inc == CANVAS_COHERENCE_NOISE_INCREMENT
    IN
    /\ IF gen.shouldRandomizeSeed
       THEN /\ RANDOM_INT \in Keys
            /\ n[RANDOM_INT].type = "rand_int"
            /\ Sources(RANGE_OF_SIZE, "start") = {Ref(RANDOM_INT, "value")}
            /\ "start" \notin DOMAIN n[RANGE_OF_SIZE]
       ELSE /\ RANDOM_INT \notin Keys
            /\ Sources(RANGE_OF_SIZE, "start") = {}
            /\ "start" \in DOMAIN n[RANGE_OF_SIZE]
            /\ n[RANGE_OF_SIZE].start = gen.seed
    /\ n[RANGE_OF_SIZE].size = gen.iterations
    /\ n[RANGE_OF_SIZE].step = 1
    /\ Sources(ITERATE, "collection") = {Ref(RANGE_OF_SIZE, "collection")}
    /\ Sources(NOISE, "seed") = {Ref(ITERATE, "item")}
    /\ Sources(inc, "a") = {Ref(ITERATE, "item")}
    /\ n[inc].type = "add"
    /\ n[inc].b = 1
    /\ Sources(CANVAS_COHERENCE_NOISE, "seed") = {Ref(inc, "value")}

C11_Witness ==
    /\ pc = "done"
    /\ gen.shouldRandomizeSeed
    /\ gen.seed > 0
    /\ gen.iterations > 1
    /\ RANDOM_INT \in Keys
    /\ graph.nodes[RANGE_OF_SIZE].size = gen.iterations

\* C12: no input field is driven twice: no two edges the builder creates
\* share a destination (node_id, field).  CANVAS_OUTPUT has exactly one
\* incoming image edge and exactly one incoming mask edge;
\* LATENTS_TO_IMAGE.latents is fed only by CANVAS_COHERENCE_DENOISE_LATENTS,
\* whose latents input is fed only by SDXL_DENOISE_LATENTS.
C12_NoInputDrivenTwice ==
    LET into(node, field) ==
            {i \in 1..Len(graph.edges) :
                graph.edges[i].destination = Ref(node, field)}
    IN
    /\ \A i, j \in 1..Len(graph.edges) :
          graph.edges[i].destination = graph.edges[j].destination => i = j
    /\ AfterScale =>
          /\ Cardinality(into(CANVAS_OUTPUT, "image")) = 1
          /\ Cardinality(into(CANVAS_OUTPUT, "mask")) = 1
    /\ AfterConstruct =>
          /\ Cardinality(into(LATENTS_TO_IMAGE, "latents")) = 1
          /\ Sources(LATENTS_TO_IMAGE, "latents") =
                {Ref(CANVAS_COHERENCE_DENOISE_LATENTS, "latents")}
          /\ Cardinality(into(CANVAS_COHERENCE_DENOISE_LATENTS, "latents")) = 1
          /\ Sources(CANVAS_COHERENCE_DENOISE_LATENTS, "latents") =
                {Ref(SDXL_DENOISE_LATENTS, "latents")}

C12_Witness ==
    /\ pc = "done"
    /\ scaledInput
    /\ coherenceInput = "edge"
    /\ gen.shouldRandomizeSeed
    /\ Sources(CANVAS_COHERENCE_INPAINT_CREATE_MASK, "mask") =
          {Ref(CANVAS_COHERENCE_MASK_EDGE, "image")}
    /\ Sources(CANVAS_OUTPUT, "mask") = {Ref(MASK_RESIZE_DOWN, "image")}

====
